---- MODULE Spec2Model ----
(***************************************************************************)
(* A model of spawn/utils/github.py: the GitHubClient (create_fork,        *)
(* configure_pages_and_actions, clone_repository, push_file) and the two   *)
(* workflows built on it (fork_template_portal, configure_static_json).    *)
(*                                                                         *)
(* The program is single-threaded and synchronous, so every operation is   *)
(* one action.  An operation is a pure operator from its arguments and the *)
(* responses of the outside world (HTTP responses, the exit code of git,   *)
(* the state of the local disk) to an "execution": what it sent, in order, *)
(* what it logged, and whether it returned or raised.  The action stores   *)
(* the execution of the call in the state, where it stays until the caller *)
(* has taken the result (Return); the next call starts after that.         *)
(*                                                                         *)
(* Python values: None is the string "<None>"; a dict is a function from   *)
(* key strings to values; a path is a tuple of segments whose first        *)
(* element is its anchor ("/", "~" or ".").  HTTP responses carry a JSON   *)
(* object as body (the contract of the GitHub REST API).  Faults of the    *)
(* environment that the code does not handle (an exception of the HTTP     *)
(* transport, an OSError of the local file system) are outside the model.  *)
(***************************************************************************)
EXTENDS Integers, Sequences, FiniteSets, TLC

VARIABLES
    config,     \* spawn.config.config["github"]: [token, username]
    environ,    \* os.environ: [GITHUB_TOKEN, GITHUB_USERNAME]
    client,     \* the GitHubClient the method calls act on: [token, username]
    files,      \* local file system: directory -> content of its static.json
    tmpdirs,    \* local file system: how many directories tempfile.mkdtemp() has made
    remote,     \* the hosting service's files: [shas: location -> marker, next: Nat]
    call,       \* the last call: [op, args]
    trace,      \* what the last call sent, in order (HTTP requests, git invocations)
    resps,      \* the response to each element of trace
    log,        \* what the last call logged: <<level, message>> pairs
    status,     \* "init", "returned" or "raised"
    ret         \* the value returned, or the exception raised

vars == <<config, environ, client, files, tmpdirs, remote, call, trace, resps, log, status, ret>>

-----------------------------------------------------------------------------
(* Python values *)

None == "<None>"

\* Python truthiness of an Optional[str]
Truthy(x) == x # None /\ x # ""

\* Python's `a or b`
Or(a, b) == IF Truthy(a) THEN a ELSE b

EmptyDict == [k \in {} |-> None]

\* d[k] = v
Put(d, k, v) == [x \in DOMAIN d \cup {k} |-> IF x = k THEN v ELSE d[x]]

\* d.update(e)
Update(d, e) == [x \in DOMAIN d \cup DOMAIN e |-> IF x \in DOMAIN e THEN e[x] ELSE d[x]]

ValueError(msg) == [type |-> "ValueError", msg |-> msg]

\* An execution: what a call did, and how it ended.
Exec(t, r, l, s, v) == [trace |-> t, resps |-> r, log |-> l, status |-> s, ret |-> v]

IsHttp(e) == e.kind = "http"

-----------------------------------------------------------------------------
(* GitHubClient.__init__ *)

GitHubClient(token, username, cfg, env) ==
    [token    |-> Or(Or(token, cfg.token), env.GITHUB_TOKEN),
     username |-> Or(Or(username, cfg.username), env.GITHUB_USERNAME)]

\* the warnings of the constructor
GitHubClientLog(self) ==
    (IF ~Truthy(self.token) THEN << <<"warning", "No GitHub token provided">> >> ELSE <<>>)
    \o (IF ~Truthy(self.username) THEN << <<"warning", "No GitHub username provided">> >> ELSE <<>>)

_get_headers(self) ==
    IF Truthy(self.token)
    THEN [Accept |-> "application/vnd.github.v3+json", Authorization |-> <<"token", self.token>>]
    ELSE [Accept |-> "application/vnd.github.v3+json"]

-----------------------------------------------------------------------------
(* GitHubClient.create_fork *)

ForkAccepted == 202
RenameOk == 200

\* mutant: the rename step forgets to compare with the source name
NeedsRename_always(new_name, repo_name) == Truthy(new_name)

\* the `if new_name and new_name != repo_name` of the rename step
NeedsRename(new_name, repo_name) == Truthy(new_name) /\ new_name # repo_name

\* requests.<method>(url, headers=self._get_headers(), json=body)
Http(self, method, url, body) ==
    [kind |-> "http", method |-> method, url |-> url, headers |-> _get_headers(self), body |-> body]

ForkRequest(self, a) ==
    Http(self, "POST", <<"repos", a.repo_owner, a.repo_name, "forks">>,
         IF Truthy(a.organization) THEN [organization |-> a.organization] ELSE EmptyDict)

RenameRequest(self, a) ==
    Http(self, "PATCH", <<"repos", Or(a.organization, self.username), a.repo_name>>,
         IF Truthy(a.description)
         THEN [name |-> a.new_name, description |-> a.description]
         ELSE [name |-> a.new_name])

\* mutant: a refused rename is escalated
create_fork_strict_rename(self, a, forkResp, renameResp) ==
    IF ~Truthy(self.token)
    THEN Exec(<<>>, <<>>, <<>>, "raised",
              ValueError("GitHub token is required to create a fork"))
    ELSE IF forkResp.status # ForkAccepted
    THEN Exec(<<ForkRequest(self, a)>>, <<forkResp>>, <<>>, "raised",
              ValueError("Failed to create fork"))
    ELSE IF ~(Truthy(a.new_name) /\ a.new_name # a.repo_name)
    THEN Exec(<<ForkRequest(self, a)>>, <<forkResp>>,
              << <<"info", "Created fork">> >>, "returned", forkResp.body)
    ELSE IF renameResp.status # RenameOk
    THEN Exec(<<ForkRequest(self, a), RenameRequest(self, a)>>, <<forkResp, renameResp>>,
              << <<"info", "Created fork">> >>, "raised",
              ValueError("Failed to rename repository"))
    ELSE Exec(<<ForkRequest(self, a), RenameRequest(self, a)>>, <<forkResp, renameResp>>,
              << <<"info", "Created fork">>, <<"info", "Renamed repository">> >>,
              "returned", renameResp.body)

\* a: [repo_owner, repo_name, new_name, organization, description];
\* forkResp, renameResp: the host's answers to the fork and to the rename.
create_fork(self, a, forkResp, renameResp) ==
    IF ~Truthy(self.token)
    THEN Exec(<<>>, <<>>, <<>>, "raised",
              ValueError("GitHub token is required to create a fork"))
    ELSE IF forkResp.status # ForkAccepted
    THEN Exec(<<ForkRequest(self, a)>>, <<forkResp>>, <<>>, "raised",
              ValueError("Failed to create fork"))
    ELSE IF ~NeedsRename(a.new_name, a.repo_name)
    THEN Exec(<<ForkRequest(self, a)>>, <<forkResp>>,
              << <<"info", "Created fork">> >>, "returned", forkResp.body)
    ELSE IF renameResp.status # RenameOk
    THEN Exec(<<ForkRequest(self, a), RenameRequest(self, a)>>, <<forkResp, renameResp>>,
              << <<"info", "Created fork">>, <<"warning", "Failed to rename repository">> >>,
              "returned", forkResp.body)
    ELSE Exec(<<ForkRequest(self, a), RenameRequest(self, a)>>, <<forkResp, renameResp>>,
              << <<"info", "Created fork">>, <<"info", "Renamed repository">> >>,
              "returned", renameResp.body)

-----------------------------------------------------------------------------
(* GitHubClient.configure_pages_and_actions *)

ActionsOkStatuses == {200, 204}
\* mutant: the pages update accepts the statuses of the actions update
PagesOkStatuses_as_actions == {200, 204}
PagesOkStatuses == {201, 204}

ActionsRequest(self, a) ==
    Http(self, "PUT", <<"repos", a.repo_owner, a.repo_name, "actions", "permissions">>,
         [enabled |-> TRUE, allowed_actions |-> "all", default_workflow_permissions |-> "write"])

PagesRequest(self, a) ==
    Http(self, "PUT", <<"repos", a.repo_owner, a.repo_name, "pages">>,
         [source |-> [branch |-> a.branch, path |-> a.pages_path]])

\* mutant: a refused actions update ends the call before the pages update
configure_pages_and_actions_abort(self, a, r1, r2) ==
    IF ~Truthy(self.token)
    THEN Exec(<<>>, <<>>, <<>>, "raised",
              ValueError("GitHub token is required to configure repo"))
    ELSE IF r1.status \notin ActionsOkStatuses
    THEN Exec(<<ActionsRequest(self, a)>>, <<r1>>,
              << <<"warning", "Failed to update Actions permissions">> >>, "returned", None)
    ELSE Exec(<<ActionsRequest(self, a), PagesRequest(self, a)>>, <<r1, r2>>,
              IF r2.status \notin PagesOkStatuses
              THEN << <<"warning", "Failed to enable GitHub Pages">> >>
              ELSE << <<"info", "Enabled GitHub Pages">> >>,
              "returned", None)

\* a: [repo_owner, repo_name, branch, pages_path]; r1, r2: the host's answers.
configure_pages_and_actions(self, a, r1, r2) ==
    IF ~Truthy(self.token)
    THEN Exec(<<>>, <<>>, <<>>, "raised",
              ValueError("GitHub token is required to configure repo"))
    ELSE Exec(<<ActionsRequest(self, a), PagesRequest(self, a)>>, <<r1, r2>>,
              (IF r1.status \notin ActionsOkStatuses
               THEN << <<"warning", "Failed to update Actions permissions">> >> ELSE <<>>)
              \o (IF r2.status \notin PagesOkStatuses
                  THEN << <<"warning", "Failed to enable GitHub Pages">> >>
                  ELSE << <<"info", "Enabled GitHub Pages">> >>),
              "returned", None)

-----------------------------------------------------------------------------
(* GitHubClient.clone_repository *)

NoPath == <<>>                          \* None, for an Optional[Path]
Home == <<"/", "home", "user">>         \* what "~" expands to
Cwd == <<"/", "work">>                  \* the current directory

\* the n-th directory that tempfile.mkdtemp() makes: a new one at every call
TmpDir(n) == <<"/", "tmp", <<"tmp1", "tmp2", "tmp3", "tmp4", "tmp5">>[n]>>

\* Path(p).expanduser().absolute()
Absolute(p) ==
    IF p[1] = "/" THEN p
    ELSE IF p[1] = "~" THEN Home \o Tail(p)
    ELSE Cwd \o Tail(p)

\* tmp: the directory that tempfile.mkdtemp() returns if it is called
CloneTarget(target_dir, tmp) == IF target_dir = NoPath THEN tmp ELSE Absolute(target_dir)

GitClone(self, a, tmp) ==
    [kind |-> "git",
     argv |-> <<"git", "clone", "--branch", a.branch,
                [host |-> "github.com", auth |-> IF Truthy(self.token) THEN self.token ELSE None,
                 owner |-> a.repo_owner, name |-> a.repo_name],
                CloneTarget(a.target_dir, tmp)>>]

\* a: [repo_owner, repo_name, target_dir, branch]; tmp: the directory of mkdtemp;
\* run: the result of subprocess.run
clone_repository(self, a, tmp, run) ==
    IF run.returncode = 0
    THEN Exec(<<GitClone(self, a, tmp)>>, <<run>>, << <<"info", "Cloned repository">> >>,
              "returned", CloneTarget(a.target_dir, tmp))
    ELSE Exec(<<GitClone(self, a, tmp)>>, <<run>>, <<>>, "raised",
              ValueError("Failed to clone repository"))

\* the number of mkdtemp directories after the call
clone_tmpdirs(a, n) == IF a.target_dir = NoPath THEN n + 1 ELSE n

\* the working tree that git checks out holds no static.json
NoFile == <<>>

\* the static.json files after the call: a clone that succeeded has checked out the
\* repository's working tree into the target directory, with the repository's
\* static.json when it has one (tree: that file's content, or NoFile)
clone_files(a, tmp, run, tree, fs) ==
    IF run.returncode = 0 /\ tree # NoFile
    THEN Put(fs, CloneTarget(a.target_dir, tmp), tree)
    ELSE fs

-----------------------------------------------------------------------------
(* GitHubClient.push_file *)

FileFound == 200
PushOkStatuses == {200, 201}

\* json.dumps(d, indent=2)
JsonDumps(d) == <<"json", d>>

\* base64.b64encode(b).decode("utf-8")
B64(b) == <<"b64", b>>

\* s.encode("utf-8")
Utf8(s) == <<"utf-8", s>>

\* content: [type |-> "dict" | "str" | "bytes", val]; the result is a str
EncodeContent(content) ==
    LET c == IF content.type = "dict" THEN [type |-> "str", val |-> JsonDumps(content.val)]
             ELSE content
    IN  IF c.type = "str" THEN [type |-> "str", val |-> B64(Utf8(c.val))]
        ELSE [type |-> "str", val |-> B64(c.val)]

ContentsUrl(a) == <<"repos", a.repo_owner, a.repo_name, "contents", a.file_path>>

\* requests.get(url, headers=..., params={"ref": branch})
ReadRequest(self, a) == Http(self, "GET", ContentsUrl(a), [ref |-> a.branch])

\* mutant: the write never carries the sha
push_file_data_no_sha(a, getResp) ==
    [message |-> a.message, content |-> EncodeContent(a.content).val, branch |-> a.branch]

\* mutant: the write carries the sha the file had when it was created, not the
\* one just read
push_file_data_cached(a, getResp) ==
    LET data == [message |-> a.message, content |-> EncodeContent(a.content).val,
                 branch |-> a.branch]
    IN  IF getResp.status = FileFound THEN Put(data, "sha", 1) ELSE data

\* the payload of the write: the sha is added when the read found the file
push_file_data(a, getResp) ==
    LET data == [message |-> a.message, content |-> EncodeContent(a.content).val,
                 branch |-> a.branch]
    IN  IF getResp.status = FileFound THEN Put(data, "sha", getResp.body.sha) ELSE data

WriteRequest(self, a, getResp) == Http(self, "PUT", ContentsUrl(a), push_file_data(a, getResp))

\* mutant: the token is checked after the read
push_file_late_token_check(self, a, getResp, putResp) ==
    IF ~Truthy(self.token)
    THEN Exec(<<Http(self, "GET", ContentsUrl(a), [ref |-> a.branch])>>, <<getResp>>, <<>>,
              "raised", ValueError("GitHub token is required to push files"))
    ELSE IF putResp.status \notin PushOkStatuses
    THEN Exec(<<Http(self, "GET", ContentsUrl(a), [ref |-> a.branch]),
                Http(self, "PUT", ContentsUrl(a), push_file_data(a, getResp))>>,
              <<getResp, putResp>>, <<>>, "raised", ValueError("Failed to push file"))
    ELSE Exec(<<Http(self, "GET", ContentsUrl(a), [ref |-> a.branch]),
                Http(self, "PUT", ContentsUrl(a), push_file_data(a, getResp))>>,
              <<getResp, putResp>>, << <<"info", "Pushed file">> >>, "returned", putResp.body)

\* a: [repo_owner, repo_name, file_path, content, message, branch];
\* getResp, putResp: the host's answers to the read and to the write.
push_file(self, a, getResp, putResp) ==
    IF ~Truthy(self.token)
    THEN Exec(<<>>, <<>>, <<>>, "raised", ValueError("GitHub token is required to push files"))
    ELSE IF putResp.status \notin PushOkStatuses
    THEN Exec(<<ReadRequest(self, a), WriteRequest(self, a, getResp)>>, <<getResp, putResp>>,
              <<>>, "raised", ValueError("Failed to push file"))
    ELSE Exec(<<ReadRequest(self, a), WriteRequest(self, a, getResp)>>, <<getResp, putResp>>,
              << <<"info", "Pushed file">> >>, "returned", putResp.body)

-----------------------------------------------------------------------------
(* fork_template_portal *)

TemplateOwner == "globus"
TemplateName == "template-search-portal"

TemplateForkArgs(a) ==
    [repo_owner |-> TemplateOwner, repo_name |-> TemplateName, new_name |-> a.new_name,
     organization |-> a.organization, description |-> a.description]

\* mutant: the clone ignores the organization
PortalCloneArgs_username_owner(self, a) ==
    [repo_owner |-> self.username, repo_name |-> a.new_name,
     target_dir |-> a.clone_dir, branch |-> "main"]

\* the arguments of the clone: the owner is `organization or client.username`
PortalCloneArgs(self, a) ==
    [repo_owner |-> Or(a.organization, self.username), repo_name |-> a.new_name,
     target_dir |-> a.clone_dir, branch |-> "main"]

\* whether the workflow gets as far as calling clone_repository
PortalClones(a, cfg, env, forkResp, renameResp) ==
    /\ create_fork(GitHubClient(a.token, a.username, cfg, env), TemplateForkArgs(a),
                   forkResp, renameResp).status = "returned"
    /\ a.clone_dir # NoPath

\* the static.json files after the call: those the clone leaves, when it runs
fork_template_portal_files(a, cfg, env, forkResp, renameResp, run, tree, fs) ==
    IF PortalClones(a, cfg, env, forkResp, renameResp)
    THEN clone_files(PortalCloneArgs(GitHubClient(a.token, a.username, cfg, env), a),
                     NoPath, run, tree, fs)
    ELSE fs

\* mutant: the clone takes the name of the descriptor that create_fork returned
fork_template_portal_clones_fork_name(a, cfg, env, forkResp, renameResp, run) ==
    LET self == GitHubClient(a.token, a.username, cfg, env)
        f == create_fork(self, TemplateForkArgs(a), forkResp, renameResp)
        c == clone_repository(self, [repo_owner |-> Or(a.organization, self.username),
                                     repo_name |-> f.ret.name, target_dir |-> a.clone_dir,
                                     branch |-> "main"], NoPath, run)
    IN  IF f.status = "raised"
        THEN Exec(f.trace, f.resps, GitHubClientLog(self) \o f.log, "raised", f.ret)
        ELSE IF a.clone_dir = NoPath
        THEN Exec(f.trace, f.resps, GitHubClientLog(self) \o f.log, "returned",
                  [repository |-> f.ret, clone_path |-> None])
        ELSE IF c.status = "raised"
        THEN Exec(f.trace \o c.trace, f.resps \o c.resps,
                  GitHubClientLog(self) \o f.log \o c.log, "raised", c.ret)
        ELSE Exec(f.trace \o c.trace, f.resps \o c.resps,
                  GitHubClientLog(self) \o f.log \o c.log, "returned",
                  [repository |-> f.ret, clone_path |-> c.ret])

\* a: [new_name, description, organization, token, username, clone_dir]
fork_template_portal(a, cfg, env, forkResp, renameResp, run) ==
    LET self == GitHubClient(a.token, a.username, cfg, env)
        f == create_fork(self, TemplateForkArgs(a), forkResp, renameResp)
        \* clone_dir is not None here, so mkdtemp is not called
        c == clone_repository(self, PortalCloneArgs(self, a), NoPath, run)
    IN  IF f.status = "raised"
        THEN Exec(f.trace, f.resps, GitHubClientLog(self) \o f.log, "raised", f.ret)
        ELSE IF a.clone_dir = NoPath
        THEN Exec(f.trace, f.resps, GitHubClientLog(self) \o f.log, "returned",
                  [repository |-> f.ret, clone_path |-> None])
        ELSE IF c.status = "raised"
        THEN Exec(f.trace \o c.trace, f.resps \o c.resps,
                  GitHubClientLog(self) \o f.log \o c.log, "raised", c.ret)
        ELSE Exec(f.trace \o c.trace, f.resps \o c.resps,
                  GitHubClientLog(self) \o f.log \o c.log, "returned",
                  [repository |-> f.ret, clone_path |-> c.ret])

-----------------------------------------------------------------------------
(* configure_static_json *)

StaticJson == "static.json"

Branding(a) ==
    LET b1 == IF Truthy(a.portal_title) THEN [title |-> a.portal_title] ELSE EmptyDict
    IN  IF Truthy(a.portal_subtitle) THEN Put(b1, "subtitle", a.portal_subtitle) ELSE b1

\* additional_config is a dict; None and {} are both the empty dict here (both falsy)
ConfigData(a) ==
    Update([index |-> [uuid |-> a.index_name, name |-> a.index_name], branding |-> Branding(a)],
           a.additional_config)

\* mutant: the file is written after the check of repo_owner and repo_name
configure_static_json_files_gated(a, fs) ==
    IF a.push_to_github /\ (~Truthy(a.repo_owner) \/ ~Truthy(a.repo_name))
    THEN fs
    ELSE Put(fs, Absolute(a.repo_dir), JsonDumps(ConfigData(a)))

\* the static.json files after the call: json.dump(config_data, f, indent=2)
configure_static_json_files(a, fs) ==
    Put(fs, Absolute(a.repo_dir), JsonDumps(ConfigData(a)))

\* the content pushed is the file read back from the disk
StaticPushArgs(a, fs) ==
    [repo_owner |-> a.repo_owner, repo_name |-> a.repo_name, file_path |-> StaticJson,
     content |-> [type |-> "str", val |-> configure_static_json_files(a, fs)[Absolute(a.repo_dir)]],
     message |-> a.commit_message, branch |-> a.branch]

\* a: [repo_dir, index_name, portal_title, portal_subtitle, additional_config, push_to_github,
\*     repo_owner, repo_name, token, username, commit_message, branch]
configure_static_json(a, cfg, env, fs, getResp, putResp) ==
    LET self == GitHubClient(a.token, a.username, cfg, env)
        written == << <<"info", "Configured static.json">> >>
        p == push_file(self, StaticPushArgs(a, fs), getResp, putResp)
    IN  IF ~a.push_to_github
        THEN Exec(<<>>, <<>>, written, "returned", Absolute(a.repo_dir) \o <<StaticJson>>)
        ELSE IF ~Truthy(a.repo_owner) \/ ~Truthy(a.repo_name)
        THEN Exec(<<>>, <<>>, written, "raised",
                  ValueError("repo_owner and repo_name are required when push_to_github is True"))
        ELSE IF p.status = "raised"
        THEN Exec(p.trace, p.resps, written \o GitHubClientLog(self) \o p.log, "raised", p.ret)
        ELSE Exec(p.trace, p.resps,
                  written \o GitHubClientLog(self) \o p.log \o << <<"info", "Pushed static.json">> >>,
                  "returned", Absolute(a.repo_dir) \o <<StaticJson>>)

-----------------------------------------------------------------------------
(* The hosting service of SpecHost: optimistic concurrency on file contents. *)
(* A write to a file that exists is accepted only with the file's current    *)
(* marker; every accepted write assigns a marker never used before.          *)

MaxPushes == 3

Location(req) == <<req.url[2], req.url[3], req.url[5], IF req.method = "GET" THEN req.body.ref ELSE req.body.branch>>

HostGet(rm, req) ==
    IF Location(req) \in DOMAIN rm.shas
    THEN [status |-> 200, body |-> [sha |-> rm.shas[Location(req)]]]
    ELSE [status |-> 404, body |-> [message |-> "Not Found"]]

HostAccepts(rm, req) ==
    Location(req) \in DOMAIN rm.shas =>
        "sha" \in DOMAIN req.body /\ req.body.sha = rm.shas[Location(req)]

HostPut(rm, req) ==
    IF ~HostAccepts(rm, req)
    THEN [status |-> 409, body |-> [message |-> "sha does not match"]]
    ELSE [status |-> IF Location(req) \in DOMAIN rm.shas THEN 200 ELSE 201,
          body |-> [content |-> [sha |-> rm.next]]]

HostAfterPut(rm, req) ==
    IF HostAccepts(rm, req)
    THEN [shas |-> Put(rm.shas, Location(req), rm.next), next |-> rm.next + 1]
    ELSE rm

-----------------------------------------------------------------------------
(* The inputs: arguments of the calls and answers of the outside world *)

\* the arguments of the constructor
ClientArgs ==
    {[token |-> None, username |-> None],
     [token |-> "", username |-> None],
     [token |-> "tok", username |-> "alice"]}
NewNames == {None, "", TemplateName, "my-portal"}
Organizations == {None, "my-org"}
Descriptions == {None, "A portal"}
Branches == {"main", "gh-pages"}
FilePaths == {StaticJson, "README.md"}
CloneDirs == {NoPath, <<"~", "portal">>}
Contents == {[type |-> "str", val |-> "hello"],
             [type |-> "dict", val |-> [k |-> "v"]],
             [type |-> "bytes", val |-> "\\x00\\x01"]}

ErrorBody == [message |-> "error"]
Descriptor(owner, name) == [name |-> name, full_name |-> <<owner, name>>]

ForkResponses ==
    {[status |-> 202, body |-> Descriptor("alice", n)] : n \in {TemplateName, "my-portal"}}
    \cup {[status |-> st, body |-> ErrorBody] : st \in {200, 404}}
RenameResponses ==
    {[status |-> 200, body |-> Descriptor("alice", "my-portal")]}
    \cup {[status |-> st, body |-> ErrorBody] : st \in {202, 422}}
ConfigResponses == {[status |-> st, body |-> EmptyDict] : st \in {200, 201, 204, 404}}
ReadResponses ==
    {[status |-> 200, body |-> [sha |-> n]] : n \in {1, 2}}
    \cup {[status |-> 404, body |-> ErrorBody]}
WriteResponses ==
    {[status |-> st, body |-> [content |-> [sha |-> 3]]] : st \in {200, 201}}
    \cup {[status |-> st, body |-> ErrorBody] : st \in {409}}
GitRuns == {[returncode |-> 0, stderr |-> ""], [returncode |-> 128, stderr |-> "fatal"]}
\* the static.json of the repository that git clones: none, or a file
RepoTrees == {NoFile, <<"text", "{\"index\":{\"uuid\":\"template\"}}\n">>}

ForkArgs ==
    [repo_owner : {TemplateOwner}, repo_name : {TemplateName}, new_name : NewNames,
     organization : Organizations, description : Descriptions]
ConfigureArgs ==
    [repo_owner : {"alice"}, repo_name : {"my-portal"}, branch : {"gh-pages"}, pages_path : {"/"}]
\* clone_repository(target_dir=None) is called at most this many times
MaxTmpDirs == 2

CloneArgs ==
    [repo_owner : {"alice"}, repo_name : {"my-portal"}, target_dir : CloneDirs, branch : {"main"}]
PushArgs ==
    [repo_owner : {"alice"}, repo_name : {"my-portal"}, file_path : {StaticJson},
     content : Contents, message : {"update"}, branch : {"main"}]
HostPushArgs ==
    [repo_owner : {"alice"}, repo_name : {"my-portal"}, file_path : FilePaths,
     content : Contents, message : {"update"}, branch : Branches]
PortalArgs ==
    [new_name : NewNames \ {None}, description : {"A portal"}, organization : Organizations,
     token : {None, "tok"}, username : {None}, clone_dir : CloneDirs]
\* the document: title, subtitle and additional_config
StaticDocs ==
    {[portal_title |-> "T", portal_subtitle |-> None, additional_config |-> EmptyDict],
     [portal_title |-> None, portal_subtitle |-> "S", additional_config |-> [index |-> [uuid |-> "X"]]]}
StaticArgs ==
    {[repo_dir |-> <<"~", "portal">>, index_name |-> "abc-123", portal_title |-> d.portal_title,
      portal_subtitle |-> d.portal_subtitle, additional_config |-> d.additional_config,
      push_to_github |-> p, repo_owner |-> o, repo_name |-> r, token |-> t, username |-> None,
      commit_message |-> "Configure portal", branch |-> "main"] :
        d \in StaticDocs, p \in BOOLEAN, o \in {"", "alice"}, r \in {None, "my-portal"},
        t \in {None, "tok"}}

-----------------------------------------------------------------------------
(* The state machine *)

NoCall == [op |-> "none", args |-> EmptyDict]

\* a client has been constructed: GitHubClient(t, u)
Init ==
    /\ config \in [token : {None, "cfg-tok"}, username : {None}]
    /\ environ \in [GITHUB_TOKEN : {None, "env-tok"}, GITHUB_USERNAME : {None, "env-user"}]
    /\ \E a \in ClientArgs :
          /\ client = GitHubClient(a.token, a.username, config, environ)
          /\ call = [op |-> "__init__", args |-> a]
    /\ files = EmptyDict
    /\ tmpdirs = 0
    /\ remote = [shas |-> EmptyDict, next |-> 1]
    /\ trace = <<>>
    /\ resps = <<>>
    /\ log = GitHubClientLog(client)
    /\ status = "returned"
    /\ ret = None

Idle == status = "idle"

\* the execution e of the call op(a)
Finish(op, a, e) ==
    /\ call' = [op |-> op, args |-> a]
    /\ trace' = e.trace
    /\ resps' = e.resps
    /\ log' = e.log
    /\ status' = e.status
    /\ ret' = e.ret

\* the caller has the result (or the exception) of the call
Return ==
    /\ ~Idle
    /\ call' = NoCall
    /\ trace' = <<>>
    /\ resps' = <<>>
    /\ log' = <<>>
    /\ status' = "idle"
    /\ ret' = None
    /\ UNCHANGED <<config, environ, client, files, tmpdirs, remote>>

CreateFork ==
    \E a \in ForkArgs, fr \in ForkResponses, rr \in RenameResponses :
        /\ Idle
        /\ Finish("create_fork", a, create_fork(client, a, fr, rr))
        /\ UNCHANGED <<config, environ, client, files, tmpdirs, remote>>

ConfigurePagesAndActions ==
    \E a \in ConfigureArgs, r1 \in ConfigResponses, r2 \in ConfigResponses :
        /\ Idle
        /\ Finish("configure_pages_and_actions", a, configure_pages_and_actions(client, a, r1, r2))
        /\ UNCHANGED <<config, environ, client, files, tmpdirs, remote>>

CloneRepository ==
    \E a \in CloneArgs, run \in GitRuns, tree \in RepoTrees :
        /\ Idle
        /\ a.target_dir = NoPath => tmpdirs < MaxTmpDirs
        /\ Finish("clone_repository", a, clone_repository(client, a, TmpDir(tmpdirs + 1), run))
        /\ files' = clone_files(a, TmpDir(tmpdirs + 1), run, tree, files)
        /\ tmpdirs' = clone_tmpdirs(a, tmpdirs)
        /\ UNCHANGED <<config, environ, client, remote>>

PushFile ==
    \E a \in PushArgs, gr \in ReadResponses, pr \in WriteResponses :
        /\ Idle
        /\ Finish("push_file", a, push_file(client, a, gr, pr))
        /\ UNCHANGED <<config, environ, client, files, tmpdirs, remote>>

ForkTemplatePortal ==
    \E a \in PortalArgs, fr \in ForkResponses, rr \in RenameResponses, run \in GitRuns,
       tree \in RepoTrees :
        /\ Idle
        /\ Finish("fork_template_portal", a, fork_template_portal(a, config, environ, fr, rr, run))
        /\ files' = fork_template_portal_files(a, config, environ, fr, rr, run, tree, files)
        /\ UNCHANGED <<config, environ, client, tmpdirs, remote>>

ConfigureStaticJson ==
    \E a \in StaticArgs, gr \in ReadResponses, pr \in WriteResponses :
        /\ Idle
        /\ Finish("configure_static_json", a, configure_static_json(a, config, environ, files, gr, pr))
        /\ files' = configure_static_json_files(a, files)
        /\ UNCHANGED <<config, environ, client, tmpdirs, remote>>

Next ==
    \/ CreateFork
    \/ ConfigurePagesAndActions
    \/ CloneRepository
    \/ PushFile
    \/ ForkTemplatePortal
    \/ ConfigureStaticJson
    \/ Return

Spec == Init /\ [][Next]_vars

-----------------------------------------------------------------------------
(* The same client against the hosting service above, with no other writer *)

\* the execution of push_file when the host rm answers
HostedPush(self, a, rm) ==
    push_file(self, a, HostGet(rm, ReadRequest(self, a)),
              HostPut(rm, WriteRequest(self, a, HostGet(rm, ReadRequest(self, a)))))

\* the host after the requests of the execution e
HostAfter(rm, e) ==
    IF Len(e.trace) = 2 THEN HostAfterPut(rm, e.trace[2]) ELSE rm

HostPushFile ==
    \E a \in HostPushArgs :
        /\ Idle
        /\ remote.next <= MaxPushes
        /\ Finish("push_file", a, HostedPush(client, a, remote))
        /\ remote' = HostAfter(remote, HostedPush(client, a, remote))
        /\ UNCHANGED <<config, environ, client, files, tmpdirs>>

NextHost ==
    \/ HostPushFile
    \/ Return

SpecHost == Init /\ [][NextHost]_vars

-----------------------------------------------------------------------------
(* Properties *)

Called(op) == call.op = op /\ status \in {"returned", "raised"}

\* the HTTP requests of the call, and those of one method
HttpIndices == {i \in 1..Len(trace) : IsHttp(trace[i])}
HttpCount(method) == Cardinality({i \in HttpIndices : trace[i].method = method})
GitIndices == {i \in 1..Len(trace) : trace[i].kind = "git"}

Falsy == {None, ""}

\* the token and the account name that the client of a workflow call resolves
WorkflowToken ==
    IF call.args.token \notin Falsy THEN call.args.token
    ELSE IF config.token \notin Falsy THEN config.token
    ELSE environ.GITHUB_TOKEN
WorkflowUsername ==
    IF call.args.username \notin Falsy THEN call.args.username
    ELSE IF config.username \notin Falsy THEN config.username
    ELSE environ.GITHUB_USERNAME

Warned(msg) == \E i \in 1..Len(log) : log[i] = <<"warning", msg>>

RaisedValueError == status = "raised" /\ ret.type = "ValueError"

\* C1: with an empty resolved token, create_fork, configure_pages_and_actions and
\* push_file each end in a ValueError, and the call has issued no HTTP request.
C1_NoTokenFailsBeforeNetwork ==
    (/\ \/ Called("create_fork")
        \/ Called("configure_pages_and_actions")
        \/ Called("push_file")
     /\ client.token \in Falsy)
    => RaisedValueError /\ HttpIndices = {} /\ trace = <<>>

C1_Witness ==
    /\ Called("create_fork")
    /\ client.token \in Falsy
    /\ call.args.new_name = "my-portal"
    /\ status = "raised"
    /\ trace = <<>>

\* C2: push_file with a token sends a write payload without "sha" when the read
\* found no file (404), and with the "sha" of the read's answer when it found one.
C2_MarkerFromPrecedingRead ==
    (Called("push_file") /\ client.token \notin Falsy) =>
        /\ Len(trace) = 2
        /\ trace[1].method = "GET"
        /\ trace[2].method = "PUT"
        /\ resps[1].status = 404 => "sha" \notin DOMAIN trace[2].body
        /\ resps[1].status = 200 =>
              "sha" \in DOMAIN trace[2].body /\ trace[2].body.sha = resps[1].body.sha

C2_Witness ==
    /\ Called("push_file")
    /\ client.token \notin Falsy
    /\ resps[1].status = 200
    /\ resps[1].body.sha = 2
    /\ trace[2].body.sha = 2

\* a create_fork call whose fork request was accepted
ForkAcceptedCall == Called("create_fork") /\ Len(resps) >= 1 /\ resps[1].status = 202

\* C3, as claimed: after an accepted fork, no rename request when new_name is not
\* given or equals the source name, and exactly one whenever new_name differs from
\* the source name.
C3_Original ==
    ForkAcceptedCall =>
        IF call.args.new_name = None \/ call.args.new_name = call.args.repo_name
        THEN HttpCount("PATCH") = 0
        ELSE HttpCount("PATCH") = 1

\* C3, amended: after an accepted fork, no rename request when new_name is not
\* given, is the empty string or equals the source name; exactly one rename request
\* when new_name is a non-empty name other than the source name, whatever the
\* answer to it.
C3_RenameAtMostOnce ==
    ForkAcceptedCall =>
        /\ HttpCount("POST") = 1
        /\ IF call.args.new_name \in {None, "", call.args.repo_name}
           THEN HttpCount("PATCH") = 0
           ELSE HttpCount("PATCH") = 1 /\ Len(trace) = 2 /\ trace[2].method = "PATCH"

C3_Witness ==
    /\ ForkAcceptedCall
    /\ call.args.new_name = "my-portal"
    /\ HttpCount("PATCH") = 1
    /\ resps[2].status = 422

\* the static.json of the spec's scenario: index "abc-123", title "T"
ScenarioDocument ==
    [index |-> [uuid |-> "abc-123", name |-> "abc-123"], branding |-> [title |-> "T"]]

\* C4: configure_static_json with push_to_github and no owner or no repo raises a
\* ValueError after it has written the new static.json and before any request.
C4_PublishGateAfterLocalWrite ==
    (/\ Called("configure_static_json")
     /\ call.args.push_to_github
     /\ (call.args.repo_owner \in Falsy \/ call.args.repo_name \in Falsy))
    => /\ RaisedValueError
       /\ trace = <<>>
       /\ <<"/", "home", "user", "portal">> \in DOMAIN files
       /\ files[<<"/", "home", "user", "portal">>][1] = "json"
       /\ files[<<"/", "home", "user", "portal">>][2].index =
             (IF "index" \in DOMAIN call.args.additional_config
              THEN call.args.additional_config.index
              ELSE [uuid |-> call.args.index_name, name |-> call.args.index_name])
       /\ (call.args.portal_title = "T" /\ call.args.portal_subtitle = None)
             => files[<<"/", "home", "user", "portal">>][2] = ScenarioDocument

C4_Witness ==
    /\ Called("configure_static_json")
    /\ call.args.push_to_github
    /\ call.args.repo_name = None
    /\ call.args.portal_title = "T"
    /\ call.args.portal_subtitle = None
    /\ status = "raised"
    /\ files[<<"/", "home", "user", "portal">>] = <<"json", ScenarioDocument>>

\* C5: configure_pages_and_actions with a token sends the actions-permissions PUT
\* and then the pages PUT whatever the two statuses are, and returns; a failure is
\* only ever a warning in the log.
C5_BestEffortBothCalls ==
    (Called("configure_pages_and_actions") /\ client.token \notin Falsy) =>
        /\ status = "returned"
        /\ Len(trace) = 2
        /\ trace[1].method = "PUT"
        /\ trace[1].url = <<"repos", call.args.repo_owner, call.args.repo_name, "actions", "permissions">>
        /\ trace[2].method = "PUT"
        /\ trace[2].url = <<"repos", call.args.repo_owner, call.args.repo_name, "pages">>
        /\ resps[1].status = 404 => Warned("Failed to update Actions permissions")

C5_Witness ==
    /\ Called("configure_pages_and_actions")
    /\ Len(trace) = 2
    /\ resps[1].status = 404
    /\ resps[2].status = 404
    /\ status = "returned"

\* a create_fork call that sent the rename
RenamedCall == ForkAcceptedCall /\ Len(trace) = 2

\* C6: in create_fork a rename answered with a status other than 200 is a warning:
\* the call returns the descriptor of the fork answer; only a rename answered 200
\* makes the call return the descriptor of the rename answer.
C6_RenameFailureIsSoft ==
    /\ ForkAcceptedCall => status = "returned"
    /\ (ForkAcceptedCall /\ Len(trace) = 1) => ret = resps[1].body
    /\ (RenamedCall /\ resps[2].status # 200) =>
          ret = resps[1].body /\ Warned("Failed to rename repository")
    /\ (RenamedCall /\ resps[2].status = 200) =>
          ret = resps[2].body /\ ~Warned("Failed to rename repository")

C6_Witness ==
    /\ RenamedCall
    /\ resps[2].status = 422
    /\ status = "returned"
    /\ ret.name = TemplateName
    /\ call.args.new_name = "my-portal"

ConfiguredCall == Called("configure_pages_and_actions") /\ Len(trace) = 2

\* C7, as claimed: 200 and 204 are the successes of the actions-permissions update
\* and of the pages update; any other status is logged as that sub-call's failure.
C7_Original ==
    ConfiguredCall =>
        /\ resps[1].status \in {200, 204} <=> ~Warned("Failed to update Actions permissions")
        /\ resps[2].status \in {200, 204} <=> ~Warned("Failed to enable GitHub Pages")

\* C7, amended: 200 and 204 are the successes of the actions-permissions update,
\* 201 and 204 those of the pages update (a 200 there is logged as a failure); any
\* other status is logged as that sub-call's failure.
C7_SuccessStatuses ==
    ConfiguredCall =>
        /\ resps[1].status \in {200, 204} <=> ~Warned("Failed to update Actions permissions")
        /\ resps[2].status \in {201, 204} <=> ~Warned("Failed to enable GitHub Pages")

C7_Witness ==
    /\ ConfiguredCall
    /\ resps[1].status = 200
    /\ resps[2].status = 200
    /\ ~Warned("Failed to update Actions permissions")
    /\ Warned("Failed to enable GitHub Pages")

\* fork_template_portal: the fork was accepted; the clone was attempted
PortalForked == Len(resps) >= 1 /\ resps[1].status = 202
PortalCloneIndex == CHOOSE i \in GitIndices : TRUE
PortalCloneUrl == trace[PortalCloneIndex].argv[5]

\* C8: fork_template_portal starts with the fork of globus/template-search-portal;
\* it runs git clone exactly when a clone directory was given and the fork
\* succeeded, for the owner `organization` when given and the resolved account name
\* otherwise; a failed fork raises with no clone, a failed clone raises too.
C8_ForkThenOptionalClone ==
    Called("fork_template_portal") =>
        /\ trace = <<>> <=> WorkflowToken \in Falsy
        /\ trace # <<>> =>
              /\ trace[1].kind = "http"
              /\ trace[1].method = "POST"
              /\ trace[1].url = <<"repos", "globus", "template-search-portal", "forks">>
        /\ GitIndices # {} <=> (call.args.clone_dir # NoPath /\ PortalForked)
        /\ GitIndices # {} =>
              /\ GitIndices = {Len(trace)}
              /\ PortalCloneUrl.owner =
                    (IF call.args.organization \notin Falsy THEN call.args.organization
                     ELSE WorkflowUsername)
        /\ ~PortalForked => RaisedValueError /\ GitIndices = {}
        /\ (GitIndices # {} /\ resps[Len(resps)].returncode # 0) => RaisedValueError
        /\ status = "returned" <=>
              /\ PortalForked
              /\ GitIndices # {} => resps[Len(resps)].returncode = 0

C8_Witness ==
    /\ Called("fork_template_portal")
    /\ call.args.organization = None
    /\ GitIndices # {}
    /\ PortalCloneUrl.owner = "env-user"
    /\ status = "returned"
    /\ ret.clone_path = <<"/", "home", "user", "portal">>

\* C9: against a host that accepts a write to an existing file only with the file's
\* current marker and assigns a new marker at every write, and with no other
\* writer, every push_file call with a token sends one read, then one write that
\* carries the marker of that read (none when the read found no file), and succeeds.
C9_EveryPushSucceeds ==
    (Called("push_file") /\ client.token \notin Falsy) =>
        /\ Len(trace) = 2
        /\ trace[1].method = "GET"
        /\ trace[2].method = "PUT"
        /\ trace[1].url = trace[2].url
        /\ trace[1].body.ref = trace[2].body.branch
        /\ "sha" \in DOMAIN trace[2].body <=> resps[1].status = 200
        /\ resps[1].status = 200 => trace[2].body.sha = resps[1].body.sha
        /\ resps[2].status \in {200, 201}
        /\ status = "returned"

\* the third push to one file: it overwrites what the second push wrote
C9_Witness ==
    /\ Called("push_file")
    /\ client.token \notin Falsy
    /\ resps[1].status = 200
    /\ resps[1].body.sha = 2
    /\ resps[2].status = 200
    /\ resps[2].body.content.sha = 3
    /\ status = "returned"
    /\ DOMAIN remote.shas = {<<"alice", "my-portal", StaticJson, "main">>}

\* fork_template_portal sent the rename and the host refused it
PortalRenameFailed ==
    /\ HttpCount("PATCH") = 1
    /\ resps[2].status # 200

\* C10: fork_template_portal clones the repository named new_name whatever became
\* of the rename; after a refused rename the result's "repository" is the fork
\* answer, so when the fork carries the template's name the name cloned is not the
\* name reported.
C10_CloneNameIgnoresRename ==
    Called("fork_template_portal") =>
        /\ GitIndices # {} => PortalCloneUrl.name = call.args.new_name
        /\ (PortalRenameFailed /\ status = "returned") => ret.repository = resps[1].body
        /\ (PortalRenameFailed /\ status = "returned" /\ GitIndices # {}
            /\ resps[1].body.name = TemplateName) =>
              PortalCloneUrl.name # ret.repository.name

C10_Witness ==
    /\ Called("fork_template_portal")
    /\ PortalRenameFailed
    /\ GitIndices # {}
    /\ status = "returned"
    /\ PortalCloneUrl.name = "my-portal"
    /\ ret.repository.name = TemplateName

====
